---- MODULE Spec2Model ----
(***************************************************************************)
(* The live-scoreboard score-update pipeline of problem_6 (README.md):     *)
(* request validation, rate limiting, the score ledger (score and          *)
(* score_history tables), the top-10 leaderboard cache and the WebSocket   *)
(* broadcast of leaderboard and personal score updates.                    *)
(***************************************************************************)
EXTENDS Integers, Sequences, FiniteSets, TLC

(* ---------------- configuration (README.md, Environment Variables) ----- *)
RATE_LIMIT_PER_USER == 10
RATE_LIMIT_WINDOW == 60
MAX_POINTS_PER_ACTION == 1000
SUSPICIOUS_VELOCITY_THRESHOLD == 100
MANUAL_REVIEW_THRESHOLD == 10000
TOP_N == 10
BAN_AFTER == 2
BAN_DURATION == 120
LEADERBOARD_TTL == 60

(* ---------------- bounds of the model ---------------------------------- *)
NumUsers == 12
NumSeeded == 11
QueueBound == 2
MaxReqLedger == 2
MaxReqRate == 13
MaxReqRank == 3
MaxReqHub == 3
MaxReqFraud == 3

Users == 1..NumUsers
Reqs == {"r1", "r2"}
Subs == {"s1", "s2"}
ActionIds == {101, 102, 103}
NoUser == 0

(* unranked: increments that were committed and got no ranking step since  *)
(* the leaderboard cache was last built                                    *)
VARIABLES cfg, accounts, total, history, nextId, rate, top, req, sub, resp, submitted,
          ban, review, unranked

(* problem_5, the resources API: db is the sqlite connection and its       *)
(* schema, resources the rows of the table, call the request handlers in   *)
(* flight, reply the response last sent, gone the ids a DELETE answered    *)
(* 200 for; di is the DIContainer, calc the run of problem_4's sum_to_n,   *)
(* built a call of BaseRepository.buildWhereClause                        *)
VARIABLES db, resources, call, reply, gone, di, calc, built

scoreVars == <<cfg, accounts, total, history, nextId, rate, top, req, sub, resp, submitted,
               ban, review, unranked>>

appVars == <<db, resources, call, reply, gone, di, calc, built>>

vars == <<scoreVars, appVars>>

(* ---------------- pure helpers ----------------------------------------- *)
Min(a, b) == IF a < b THEN a ELSE b

RECURSIVE SumPoints(_)
SumPoints(S) ==
    IF S = {} THEN 0
    ELSE LET x == CHOOSE y \in S : TRUE IN x.points + SumPoints(S \ {x})

BetterAsc(sc, u, v) == sc[u] < sc[v] \/ (sc[u] = sc[v] /\ u < v)

(* ORDER BY total_score DESC, user_id ASC *)
Better(sc, u, v) == sc[u] > sc[v] \/ (sc[u] = sc[v] /\ u < v)

GetRankShared(acc, sc, u) == 1 + Cardinality({v \in acc : sc[v] > sc[u]})

(* exact rank: one more than the number of accounts ordered before u *)
GetRank(acc, sc, u) == 1 + Cardinality({v \in acc : Better(sc, v, u)})

(* the first n accounts of the ordering, as (user_id, score) entries *)
RebuildTopN(acc, sc, n) ==
    LET Sorted(ranked) ==
            [k \in 1..Min(n, Cardinality(acc)) |->
                LET u == (CHOOSE p \in ranked : p[1] = k)[2]
                IN [user_id |-> u, score |-> sc[u]]]
    IN CHOOSE e \in {Sorted(ranked) : ranked \in {{<<GetRank(acc, sc, v), v>> : v \in acc}}} :
           TRUE

Occupant(entries, k) == IF k \in DOMAIN entries THEN entries[k].user_id ELSE NoUser

ChangedRanksShort(before, after) ==
    {k \in 1..(TOP_N - 1) : Occupant(before, k) # Occupant(after, k)}

(* rank positions whose occupant differs between two snapshots *)
ChangedRanks(before, after) ==
    {k \in 1..TOP_N : Occupant(before, k) # Occupant(after, k)}

ValidPointsNoMax(p) == p > 0

(* Score Bounds: points is a positive integer within the configured maximum *)
ValidPoints(p) == p > 0 /\ p <= MAX_POINTS_PER_ACTION

(* score_history.action_id UNIQUE *)
SeenActionIds == {h.action_id : h \in history}

(* ---------------- scenarios: the inputs a run draws from --------------- *)
ScnLedger ==
    [inputs |-> {<<10, 101, 10>>, <<11, 101, 10>>, <<11, 102, 1000>>},
     reqs |-> {"r1", "r2"}, subs |-> {"s1"}, maxReq |-> MaxReqLedger,
     ticks |-> {RATE_LIMIT_WINDOW}]

ScnRate ==
    [inputs |-> {<<11, 101, 10>>, <<11, 102, 5000>>, <<NoUser, 101, 10>>},
     reqs |-> {"r1"}, subs |-> {"s1"}, maxReq |-> MaxReqRate, ticks |-> {25, 35}]

ScnRank ==
    [inputs |-> {<<10, 101, 10>>, <<11, 101, 10>>, <<11, 102, 1000>>, <<12, 102, 10>>,
                 <<11, 103, 5000>>, <<10, 103, 0>>, <<NoUser, 103, 10>>},
     reqs |-> {"r1"}, subs |-> {"s1"}, maxReq |-> MaxReqRank,
     ticks |-> {LEADERBOARD_TTL}]

(* two leaders overtaking each other while both requests are in flight *)
ScnOrder ==
    [inputs |-> {<<9, 101, 1000>>, <<8, 102, 1000>>, <<11, 103, 10>>},
     reqs |-> {"r1", "r2"}, subs |-> {"s1"}, maxReq |-> MaxReqLedger,
     ticks |-> {RATE_LIMIT_WINDOW}]

(* one user's increments and a rival's, more than a subscriber queue holds *)
ScnHub ==
    [inputs |-> {<<11, 101, 10>>, <<11, 102, 1000>>, <<11, 103, 10>>, <<10, 103, 1000>>},
     reqs |-> {"r1"}, subs |-> {"s1"}, maxReq |-> MaxReqHub,
     ticks |-> {LEADERBOARD_TTL}]

(* one user's increments, more than the queues of its subscription hold *)
ScnLive ==
    [inputs |-> {<<11, 101, 10>>, <<11, 102, 1000>>, <<11, 103, 10>>},
     reqs |-> {"r1"}, subs |-> {"s1"}, maxReq |-> MaxReqHub,
     ticks |-> {LEADERBOARD_TTL}]

(* an account 10 points below the manual-review threshold, a newcomer     *)
(* gaining fast, and an action beyond the bounds                           *)
ScnFraud ==
    [inputs |-> {<<1, 101, 10>>, <<1, 102, 10>>, <<11, 103, 1000>>, <<11, 101, 10>>,
                 <<11, 102, 5000>>},
     reqs |-> {"r1"}, subs |-> {"s1"}, maxReq |-> MaxReqFraud,
     ticks |-> {RATE_LIMIT_WINDOW}]

(* ---------------- initial state ---------------------------------------- *)
(* seeded ledger: nine leaders, the 10th place at 100 and user 11 at 95,   *)
(* each total backed by one score_history row                              *)
SeedScore(u) == IF u <= 9 THEN 200 + 10 * (10 - u) ELSE IF u = 10 THEN 100 ELSE 95

Idle ==
    [pc |-> "idle", user |-> NoUser, aid |-> 0, pts |-> 0, isRetry |-> FALSE,
     flag |-> FALSE, new_score |-> 0, rank |-> 0,
     seq |-> 0, was |-> <<>>, now |-> <<>>, rank0 |-> 0, overlap |-> FALSE,
     changed |-> {}, board |-> <<>>]

(* what a caller receives: the response to POST /api/scores or to          *)
(* GET /api/scoreboard; it is there in the state that follows the step     *)
NoResp ==
    [kind |-> "none", res |-> "", user |-> NoUser, aid |-> 0, pts |-> 0, isRetry |-> FALSE,
     retry |-> 0, flagged |-> FALSE,
     new_score |-> 0, rank |-> 0, was |-> <<>>, now |-> <<>>, rank0 |-> 0,
     overlap |-> FALSE, changed |-> {}, nDelta |-> 0, nPersonal |-> 0,
     src |-> "", entries |-> <<>>]

Reject(rec, result, retry) ==
    [NoResp EXCEPT !.kind = "increment", !.res = result, !.user = rec.user,
                   !.aid = rec.aid, !.pts = rec.pts, !.isRetry = rec.isRetry, !.retry = retry]

NoTop == [entries |-> <<>>, ttl |-> 0]
NoRate == [count |-> 0, ttl |-> 0, strikes |-> 0, since |-> 0]

(* seeded: the score and score_history rows of NumSeeded earlier players;   *)
(* otherwise three registered users who have not scored yet                *)
(* problem_4 and problem_5 are other programs: not started *)
AppOff ==
    /\ db = [open |-> FALSE, creating |-> FALSE, table |-> FALSE, seq |-> 0, now |-> 0]
    /\ resources = <<>>
    /\ call = <<>>
    /\ reply = <<>>
    /\ gone = {}
    /\ di = <<>>
    /\ calc = <<>>
    /\ built = <<>>

(* the scoreboard left out of a run of the other programs *)
ScoreOff ==
    /\ cfg = ScnLedger
    /\ accounts = {}
    /\ total = <<>>
    /\ history = {}
    /\ nextId = 1
    /\ rate = <<>>
    /\ top = NoTop
    /\ req = <<>>
    /\ sub = <<>>
    /\ resp = NoResp
    /\ submitted = 0
    /\ ban = <<>>
    /\ review = {}
    /\ unranked = 0

(* the leader of the seeded ledger close to the manual-review threshold *)
NearReview(u) == IF u = 1 THEN MANUAL_REVIEW_THRESHOLD - 10 ELSE SeedScore(u)

InitLedger(scn, seeded, seed) ==
    /\ cfg = scn
    /\ accounts = IF seeded THEN 1..NumSeeded ELSE {10, 11, 12}
    /\ total = [u \in Users |-> IF seeded /\ u <= NumSeeded THEN seed[u] ELSE 0]
    /\ history = IF seeded
                 THEN {[id |-> u, user_id |-> u, action_id |-> u, points |-> seed[u]] :
                          u \in 1..NumSeeded}
                 ELSE {}
    /\ nextId = IF seeded THEN NumSeeded + 1 ELSE 1
    /\ rate = [u \in Users |-> NoRate]
    /\ top = NoTop
    /\ req = [r \in Reqs |-> Idle]
    /\ sub = [s \in Subs |->
                [user |-> IF s = "s1" THEN 11 ELSE 10, deltas |-> <<>>, personal |-> <<>>,
                 resync |-> FALSE]]
    /\ resp = NoResp
    /\ submitted = 0
    /\ ban = [u \in Users |-> 0]
    /\ review = {}
    /\ unranked = 0
    /\ AppOff

InitWith(scn, seeded) == InitLedger(scn, seeded, [u \in Users |-> SeedScore(u)])

Init == InitWith(ScnLedger, TRUE)
InitRate == InitWith(ScnRate, TRUE)
InitRank == \E seeded \in BOOLEAN : InitWith(ScnRank, seeded)
InitOrder == InitWith(ScnOrder, TRUE)
InitHub == InitWith(ScnHub, TRUE)
InitLive == InitWith(ScnLive, TRUE)
InitFraud == InitLedger(ScnFraud, TRUE, [u \in Users |-> NearReview(u)])

RateExceededLate(rl) == rl.ttl > 0 /\ rl.count > RATE_LIMIT_PER_USER

(* Rate Limiting: the rate_limit:{user_id} request count with its TTL *)
RateExceeded(rl) == rl.ttl > 0 /\ rl.count >= RATE_LIMIT_PER_USER

(* the window opens with the first counted request; since is the id the    *)
(* next score_history row will get, so the rows of the window are known    *)
CheckVelocity(rl, id) ==
    IF rl.ttl = 0 THEN [count |-> 1, ttl |-> RATE_LIMIT_WINDOW, strikes |-> 0, since |-> id]
    ELSE [rl EXCEPT !.count = @ + 1]

RetryAfter(rl) == rl.ttl

BannedWhileCounting(b, rl) == b > 0 /\ rl.ttl > 0

(* Progressive Penalties: a temporary ban is in force, whatever the counter *)
Banned(b, rl) == b > 0

(* a violation is counted with the request count; repeated ones bring the ban *)
Strike(rl) == [rl EXCEPT !.strikes = @ + 1]
Penalty(b, rl) == IF rl.strikes >= BAN_AFTER THEN BAN_DURATION ELSE b

(* the caller answered PersistenceError submits the same action_id again *)
RetryOf(last, cred, a) == last.res = "PersistenceError" /\ last.user = cred /\ last.aid = a

(* POST /api/scores: validate the JWT, then check rate limiting *)
Submit(r, cred, a, p) ==
    /\ req[r].pc = "idle"
    /\ r = "r2" => req["r1"].pc # "idle"
    /\ submitted < cfg.maxReq
    /\ submitted' = submitted + 1
    /\ LET rec == [Idle EXCEPT !.user = cred, !.aid = a, !.pts = p,
                             !.isRetry = RetryOf(resp, cred, a)] IN
       IF cred \notin accounts
       THEN /\ resp' = Reject(rec, "Unauthorized", 0)
            /\ UNCHANGED <<rate, req, ban>>
       ELSE IF Banned(ban[cred], rate[cred])
       THEN /\ resp' = Reject(rec, "RateLimited", ban[cred])
            /\ UNCHANGED <<rate, req, ban>>
       ELSE IF RateExceeded(rate[cred])
       THEN /\ resp' = Reject(rec, "RateLimited", RetryAfter(rate[cred]))
            /\ rate' = [rate EXCEPT ![cred] = Strike(@)]
            /\ ban' = [ban EXCEPT ![cred] = Penalty(@, Strike(rate[cred]))]
            /\ UNCHANGED req
       ELSE /\ req' = [req EXCEPT ![r] = [rec EXCEPT !.pc = "guard"]]
            /\ rate' = [rate EXCEPT ![cred] = CheckVelocity(@, nextId)]
            /\ resp' = NoResp
            /\ UNCHANGED ban
    /\ UNCHANGED <<appVars, cfg, accounts, total, history, nextId, top, sub, review, unranked>>

(* ---------------- Suspicious Activity Detection ------------------------ *)
(* the user's recent activity: the points of the rows written since the    *)
(* user's current window opened                                            *)
RecentGain(h, u, rl) ==
    IF rl.ttl = 0 THEN 0
    ELSE SumPoints({x \in h : x.user_id = u /\ x.id >= rl.since})

(* Velocity Checks: unusually rapid score increase *)
VelocityOfGain(gain, p) == gain + p > SUSPICIOUS_VELOCITY_THRESHOLD

(* Manual Review Queue: the total after the increment is above the threshold *)
TotalCeiling(t, p) == t + p > MANUAL_REVIEW_THRESHOLD

HeuristicsBlocking(gain, t, p) ==
    IF ~ValidPoints(p) \/ VelocityOfGain(gain, p) \/ TotalCeiling(t, p) THEN "Reject"
    ELSE "Accept"

(* bounds first, then the checks that flag: Accept, Flag or Reject *)
Heuristics(gain, t, p) ==
    IF ~ValidPoints(p) THEN "Reject"
    ELSE IF VelocityOfGain(gain, p) \/ TotalCeiling(t, p) THEN "Flag"
    ELSE "Accept"

Verdict(rec) ==
    Heuristics(RecentGain(history, rec.user, rate[rec.user]), total[rec.user], rec.pts)

(* the action_id is recorded before the bounds are looked at *)
ValidateReserving(r) ==
    /\ req[r].pc = "guard"
    /\ IF req[r].aid \in SeenActionIds
       THEN /\ resp' = Reject(req[r], "DuplicateAction", 0)
            /\ req' = [req EXCEPT ![r] = Idle]
            /\ UNCHANGED <<history, nextId, review>>
       ELSE IF Verdict(req[r]) = "Reject"
       THEN /\ resp' = Reject(req[r], "InvalidAction", 0)
            /\ req' = [req EXCEPT ![r] = Idle]
            /\ history' = history \cup {[id |-> nextId, user_id |-> req[r].user,
                                          action_id |-> req[r].aid, points |-> 0]}
            /\ nextId' = nextId + 1
            /\ UNCHANGED review
       ELSE /\ resp' = NoResp
            /\ req' = [req EXCEPT ![r] = [@ EXCEPT !.pc = "apply",
                                                   !.flag = Verdict(req[r]) = "Flag"]]
            /\ review' = IF Verdict(req[r]) = "Flag" THEN review \cup {req[r].aid} ELSE review
            /\ UNCHANGED <<history, nextId>>
    /\ UNCHANGED <<appVars, cfg, accounts, total, rate, top, sub, submitted,
                   ban, unranked>>

(* Validate action_id uniqueness, verify points are within bounds, check   *)
(* the recent activity, then flag or reject; a flag is put on the manual   *)
(* review queue and the request goes on                                    *)
Validate(r) ==
    /\ req[r].pc = "guard"
    /\ IF req[r].aid \in SeenActionIds
       THEN /\ resp' = Reject(req[r], "DuplicateAction", 0)
            /\ req' = [req EXCEPT ![r] = Idle]
            /\ UNCHANGED review
       ELSE IF Verdict(req[r]) = "Reject"
       THEN /\ resp' = Reject(req[r], "InvalidAction", 0)
            /\ req' = [req EXCEPT ![r] = Idle]
            /\ UNCHANGED review
       ELSE /\ resp' = NoResp
            /\ req' = [req EXCEPT ![r] = [@ EXCEPT !.pc = "apply",
                                                   !.flag = Verdict(req[r]) = "Flag"]]
            /\ review' = IF Verdict(req[r]) = "Flag" THEN review \cup {req[r].aid} ELSE review
    /\ UNCHANGED <<appVars, cfg, accounts, total, history, nextId, rate, top, sub, submitted,
                   ban, unranked>>

(* ---------------- Score Ledger ----------------------------------------- *)
InsertHistory(h, id, u, a, p) ==
    h \cup {[id |-> id, user_id |-> u, action_id |-> a, points |-> p]}

OverwriteTotal(sc, u, p) == [sc EXCEPT ![u] = p]

(* UPDATE score SET total_score = total_score + points, one atomic statement *)
IncrementTotal(sc, u, p) == [sc EXCEPT ![u] = @ + p]

NoUniqueConstraint(h, a) == FALSE

(* score_history.action_id UNIQUE: the insert of a second row is refused *)
UniqueViolation(h, a) == a \in {x.action_id : x \in h}

(* an aborted transaction leaves the total as it was *)
RolledBack(sc, u, p) == sc

TopUsers(acc, sc) ==
    CHOOSE t \in {[k \in DOMAIN e |-> e[k].user_id] : e \in {RebuildTopN(acc, sc, TOP_N)}} : TRUE

Pending(r) == req[r].pc = "rank"

(* another commit lands while a committed request awaits its ranking step *)
Overtaken(r, keep) ==
    [q \in Reqs |->
        IF q = r THEN keep
        ELSE IF Pending(q) THEN [req[q] EXCEPT !.overlap = TRUE]
        ELSE req[q]]

(* one transaction: insert into score_history (action_id UNIQUE) and       *)
(* update total_score; a UNIQUE violation aborts it                        *)
Commit(r) ==
    /\ req[r].pc = "apply"
    /\ LET u == req[r].user
           a == req[r].aid
           p == req[r].pts
           sc == IncrementTotal(total, u, p)
           busy == \E q \in Reqs \ {r} : Pending(q)
       IN IF UniqueViolation(history, a)
          THEN /\ resp' = Reject(req[r], "DuplicateAction", 0)
               /\ req' = [req EXCEPT ![r] = Idle]
               /\ total' = RolledBack(total, u, p)
               /\ UNCHANGED <<history, nextId>>
          ELSE /\ history' = InsertHistory(history, nextId, u, a, p)
               /\ total' = sc
               /\ nextId' = nextId + 1
               /\ resp' = NoResp
               /\ req' = Overtaken(r,
                            [req[r] EXCEPT !.pc = "rank", !.new_score = sc[u],
                                !.seq = nextId, !.rank0 = GetRank(accounts, total, u),
                                !.was = TopUsers(accounts, total),
                                !.now = TopUsers(accounts, sc), !.overlap = busy])
    /\ UNCHANGED <<appVars, cfg, accounts, rate, top, sub, submitted,
                   ban, review, unranked>>

(* the leaderboard:top10 key is there *)
CacheFresh(t) == t.ttl > 0

(* what a failed transaction leaves behind when the storage layer had in   *)
(* fact applied it: both halves                                            *)
PersistedHistory(h, id, u, a, p) == InsertHistory(h, id, u, a, p)
PersistedTotal(sc, u, p) == IncrementTotal(sc, u, p)

FailApplyReserved(r, persisted) ==
    /\ req[r].pc = "apply"
    /\ LET u == req[r].user
           a == req[r].aid
           p == req[r].pts
       IN /\ resp' = Reject(req[r], "PersistenceError", 0)
          /\ IF persisted /\ ~UniqueViolation(history, a)
             THEN /\ history' = PersistedHistory(history, nextId, u, a, p)
                  /\ total' = PersistedTotal(total, u, p)
                  /\ nextId' = nextId + 1
                  /\ req' = Overtaken(r, Idle)
                  /\ unranked' = IF CacheFresh(top) THEN unranked + 1 ELSE unranked
             ELSE /\ req' = [req EXCEPT ![r] = Idle]
                  /\ history' = InsertHistory(history, nextId, u, a, 0)
                  /\ nextId' = nextId + 1
                  /\ UNCHANGED <<total, unranked>>
    /\ UNCHANGED <<appVars, cfg, accounts, rate, top, sub, submitted,
                   ban, review>>

(* storage failure during the transaction: the caller gets PersistenceError *)
(* whether the transaction was rolled back or had in fact been committed    *)
FailApply(r, persisted) ==
    /\ req[r].pc = "apply"
    /\ LET u == req[r].user
           a == req[r].aid
           p == req[r].pts
       IN /\ resp' = Reject(req[r], "PersistenceError", 0)
          /\ IF persisted /\ ~UniqueViolation(history, a)
             THEN /\ history' = PersistedHistory(history, nextId, u, a, p)
                  /\ total' = PersistedTotal(total, u, p)
                  /\ nextId' = nextId + 1
                  /\ req' = Overtaken(r, Idle)
                  /\ unranked' = IF CacheFresh(top) THEN unranked + 1 ELSE unranked
             ELSE /\ req' = [req EXCEPT ![r] = Idle]
                  /\ UNCHANGED <<total, history, nextId, unranked>>
    /\ UNCHANGED <<appVars, cfg, accounts, rate, top, sub, submitted,
                   ban, review>>

(* ---------------- Ranking Index ---------------------------------------- *)
(* the ordering before this increment: the user at the previous score *)
PreviousTopN(acc, sc, u, p) == RebuildTopN(acc, [sc EXCEPT ![u] = @ - p], TOP_N)

AffectedStrict(acc, sc, u) == GetRank(acc, sc, u) < TOP_N

(* does the new score affect the leaderboard (e.g., top 10) *)
Affected(acc, sc, u) == GetRank(acc, sc, u) <= TOP_N

(* after the commit: recompute the top 10 if affected, update the          *)
(* leaderboard cache and work out the positions that changed               *)
Rank(r) ==
    /\ req[r].pc = "rank"
    /\ \E after \in {RebuildTopN(accounts, total, TOP_N)},
          before \in {PreviousTopN(accounts, total, req[r].user, req[r].pts)},
          hit \in {Affected(accounts, total, req[r].user)} :
          /\ req' = [req EXCEPT ![r] =
                        [@ EXCEPT !.pc = "publish",
                                  !.rank = GetRank(accounts, total, req[r].user),
                                  !.changed = IF hit THEN ChangedRanks(before, after) ELSE {},
                                  !.board = IF hit THEN after ELSE <<>>]]
          /\ top' = IF hit THEN [entries |-> after, ttl |-> LEADERBOARD_TTL] ELSE top
          /\ unranked' = IF hit THEN 0 ELSE unranked
    /\ resp' = NoResp
    /\ UNCHANGED <<appVars, cfg, accounts, total, history, nextId, rate, sub, submitted,
                   ban, review>>

RankFailsSurfaced(r) ==
    /\ req[r].pc = "rank"
    /\ req' = [req EXCEPT ![r] = Idle]
    /\ top' = NoTop
    /\ unranked' = 0
    /\ resp' = Reject(req[r], "PersistenceError", 0)
    /\ UNCHANGED <<appVars, cfg, accounts, total, history, nextId, rate, sub, submitted,
                   ban, review>>

(* the ranking recompute fails after the commit: the leaderboard cache is  *)
(* given up (the next read rebuilds it), no positions are worked out, and  *)
(* the request goes on to its answer with the rank counted on the ledger   *)
RankFails(r) ==
    /\ req[r].pc = "rank"
    /\ req' = [req EXCEPT ![r] =
                 [@ EXCEPT !.pc = "publish", !.rank = GetRank(accounts, total, req[r].user),
                           !.changed = {}, !.board = <<>>]]
    /\ top' = NoTop
    /\ unranked' = 0
    /\ resp' = NoResp
    /\ UNCHANGED <<appVars, cfg, accounts, total, history, nextId, rate, sub, submitted,
                   ban, review>>

(* ---------------- Broadcast Hub ---------------------------------------- *)
EnqueueDeltaKeepOld(q, m) ==
    IF Len(q) < QueueBound THEN Append(q, m) ELSE q

(* bounded queue of leaderboard updates: the oldest gives way to the newest *)
EnqueueDelta(q, m) ==
    IF Len(q) < QueueBound THEN Append(q, m) ELSE Append(Tail(q), m)

RankingsAlways(changed) == TRUE

(* rankings changed: push a LEADERBOARD_UPDATE *)
RankingsChanged(changed) == changed # {}

PublishLeaderboardDelta(sb, m) ==
    [s \in Subs |-> IF s \in cfg.subs THEN [sb[s] EXCEPT !.deltas = EnqueueDelta(@, m)] ELSE sb[s]]

PublishPersonalSilent(sb, u, m) ==
    [s \in Subs |->
        IF s \notin cfg.subs \/ sb[s].user # u THEN sb[s]
        ELSE IF Len(sb[s].personal) < QueueBound
        THEN [sb[s] EXCEPT !.personal = Append(@, m)]
        ELSE sb[s]]

(* SCORE_UPDATE, only to the user; a full queue raises the resync signal *)
PublishPersonalUpdate(sb, u, m) ==
    [s \in Subs |->
        IF s \notin cfg.subs \/ sb[s].user # u THEN sb[s]
        ELSE IF Len(sb[s].personal) < QueueBound
        THEN [sb[s] EXCEPT !.personal = Append(@, m)]
        ELSE [sb[s] EXCEPT !.resync = TRUE]]

PublishBlocking(r) ==
    /\ \A s \in cfg.subs : Len(sub[s].deltas) < QueueBound /\ Len(sub[s].personal) < QueueBound
    /\ req[r].pc = "publish"
    /\ req' = [req EXCEPT ![r] = Idle]
    /\ resp' = [NoResp EXCEPT !.kind = "increment", !.res = "OK", !.user = req[r].user,
                              !.aid = req[r].aid, !.pts = req[r].pts, !.flagged = req[r].flag,
                              !.new_score = req[r].new_score, !.rank = req[r].rank]
    /\ sub' = PublishPersonalUpdate(
                 PublishLeaderboardDelta(sub, [seq |-> req[r].seq,
                                               changed_ranks |-> req[r].changed,
                                               leaderboard |-> req[r].board]),
                 req[r].user,
                 [new_score |-> req[r].new_score, rank |-> req[r].rank,
                  points_gained |-> req[r].pts])
    /\ UNCHANGED <<appVars, cfg, accounts, total, history, nextId, rate, top, submitted,
                   ban, review, unranked>>

(* push the updates and return the updated score and rank *)
Publish(r) ==
    /\ req[r].pc = "publish"
    /\ LET rec == req[r]
           delta == [seq |-> rec.seq, changed_ranks |-> rec.changed, leaderboard |-> rec.board]
           own == [new_score |-> rec.new_score, rank |-> rec.rank, points_gained |-> rec.pts]
           push == RankingsChanged(rec.changed)
           sb == IF push THEN PublishLeaderboardDelta(sub, delta) ELSE sub
       IN /\ sub' = PublishPersonalUpdate(sb, rec.user, own)
          /\ resp' = [NoResp EXCEPT !.kind = "increment", !.res = "OK", !.user = rec.user,
                         !.aid = rec.aid, !.pts = rec.pts, !.isRetry = rec.isRetry,
                         !.flagged = rec.flag, !.new_score = rec.new_score,
                         !.rank = rec.rank, !.was = rec.was, !.now = rec.now,
                         !.rank0 = rec.rank0, !.overlap = rec.overlap,
                         !.changed = rec.changed, !.nDelta = IF push THEN 1 ELSE 0,
                         !.nPersonal = 1]
          /\ req' = [req EXCEPT ![r] = Idle]
    /\ UNCHANGED <<appVars, cfg, accounts, total, history, nextId, rate, top, submitted,
                   ban, review, unranked>>

DeliverDelta(s) ==
    /\ sub[s].deltas # <<>>
    /\ sub' = [sub EXCEPT ![s].deltas = Tail(@)]
    /\ resp' = NoResp
    /\ UNCHANGED <<appVars, cfg, accounts, total, history, nextId, rate, top, req, submitted,
                   ban, review, unranked>>

DeliverPersonal(s) ==
    /\ sub[s].personal # <<>>
    /\ sub' = [sub EXCEPT ![s].personal = Tail(@)]
    /\ resp' = NoResp
    /\ UNCHANGED <<appVars, cfg, accounts, total, history, nextId, rate, top, req, submitted,
                   ban, review, unranked>>

(* BroadcastDeliveryFailure: the connection of a subscriber breaks with    *)
(* messages queued; they are lost, a lost personal update leaves the       *)
(* resync signal, and no request hears of it                               *)
DeliveryFails(s) ==
    /\ sub[s].deltas # <<>> \/ sub[s].personal # <<>>
    /\ sub' = [sub EXCEPT ![s] = [@ EXCEPT !.deltas = <<>>, !.personal = <<>>,
                                          !.resync = @ \/ sub[s].personal # <<>>]]
    /\ resp' = NoResp
    /\ UNCHANGED <<appVars, cfg, accounts, total, history, nextId, rate, top, req, submitted,
                   ban, review, unranked>>

(* ---------------- GET /api/scoreboard ---------------------------------- *)
GetTopN ==
    /\ resp.kind # "scoreboard"
    /\ IF CacheFresh(top)
       THEN /\ resp' = [NoResp EXCEPT !.kind = "scoreboard", !.src = "cache",
                                      !.entries = top.entries]
            /\ UNCHANGED <<top, unranked>>
       ELSE LET fresh == RebuildTopN(accounts, total, TOP_N)
            IN /\ resp' = [NoResp EXCEPT !.kind = "scoreboard", !.src = "rebuild",
                                         !.entries = fresh]
               /\ top' = [entries |-> fresh, ttl |-> LEADERBOARD_TTL]
               /\ unranked' = 0
    /\ UNCHANGED <<appVars, cfg, accounts, total, history, nextId, rate, req, sub, submitted,
                   ban, review>>

(* ---------------- time: Redis TTLs run down ---------------------------- *)
Expire(ttl, d) == IF ttl > d THEN ttl - d ELSE 0

Tick(d) ==
    /\ d \in cfg.ticks
    /\ (top.ttl > 0 \/ \E u \in Users : rate[u].ttl > 0 \/ ban[u] > 0)
    /\ rate' = [u \in Users |->
                  IF Expire(rate[u].ttl, d) = 0 THEN NoRate
                  ELSE [rate[u] EXCEPT !.ttl = Expire(@, d)]]
    /\ top' = IF Expire(top.ttl, d) = 0 THEN NoTop ELSE [top EXCEPT !.ttl = Expire(@, d)]
    /\ resp' = NoResp
    /\ ban' = [u \in Users |-> Expire(ban[u], d)]
    /\ unranked' = IF Expire(top.ttl, d) = 0 THEN 0 ELSE unranked
    /\ UNCHANGED <<appVars, cfg, accounts, total, history, nextId, req, sub, submitted,
                   review>>

(* ---------------- specifications --------------------------------------- *)
Next ==
    \/ \E r \in cfg.reqs, i \in cfg.inputs : Submit(r, i[1], i[2], i[3])
    \/ \E r \in Reqs : Validate(r)
    \/ \E r \in Reqs : Commit(r)
    \/ \E r \in Reqs, persisted \in BOOLEAN : FailApply(r, persisted)
    \/ \E r \in Reqs : Rank(r)
    \/ \E r \in Reqs : Publish(r)
    \/ \E s \in Subs : DeliverDelta(s)
    \/ \E s \in Subs : DeliverPersonal(s)
    \/ GetTopN
    \/ \E d \in 1..RATE_LIMIT_WINDOW : Tick(d)

(* the flow with the failures that can follow a commit *)
NextHub ==
    \/ Next
    \/ \E r \in Reqs : RankFails(r)
    \/ \E s \in Subs : DeliveryFails(s)

Spec == Init /\ [][Next]_vars
SpecRate == InitRate /\ [][Next]_vars
SpecRank == InitRank /\ [][Next]_vars
SpecOrder == InitOrder /\ [][Next]_vars
SpecHub == InitHub /\ [][NextHub]_vars
SpecFraud == InitFraud /\ [][Next]_vars

(* ======================= properties ==================================== *)
RecordsOf(u) == {h \in history : h.user_id = u}
RecordsFor(a) == {h \in history : h.action_id = a}

(* C1: in every reachable state, also after a storage failure inside the   *)
(* ledger transaction and with increments in flight concurrently, each     *)
(* user's total_score equals the sum of points over that user's            *)
(* score_history rows.                                                     *)
C1_LedgerConsistent == \A u \in Users : total[u] = SumPoints(RecordsOf(u))

(* a failure whose transaction had been applied, with another request      *)
(* between its checks and its ranking step                                 *)
C1_Witness ==
    /\ resp.res = "PersistenceError"
    /\ resp.aid \in SeenActionIds
    /\ \E r \in Reqs : req[r].pc \in {"apply", "rank"}

(* C2: however often and in whatever interleaving an action_id is          *)
(* submitted, score_history holds at most one row for it, a submission     *)
(* answered OK or DuplicateAction leaves exactly one row, the row is the   *)
(* one of the applied submission, and the user's total counts the points   *)
(* of each action_id once.                                                 *)
PointsOnce(u) ==
    LET ids == {h.action_id : h \in RecordsOf(u)}
    IN SumPoints({[action_id |-> a, points |-> (CHOOSE h \in RecordsFor(a) : TRUE).points] :
                     a \in ids})

C2_ExactlyOnce ==
    /\ \A a \in SeenActionIds : Cardinality(RecordsFor(a)) = 1
    /\ \A u \in Users : total[u] = PointsOnce(u)
    /\ resp.res \in {"OK", "DuplicateAction"} => Cardinality(RecordsFor(resp.aid)) = 1
    /\ resp.res = "OK" =>
          \E h \in RecordsFor(resp.aid) : h.user_id = resp.user /\ h.points = resp.pts
    /\ \A r \in Reqs : req[r].pc \in {"rank", "publish"} =>
          \E h \in RecordsFor(req[r].aid) :
              h.id = req[r].seq /\ h.user_id = req[r].user /\ h.points = req[r].pts

(* the same action_id submitted twice at once: one is applied, the other   *)
(* is answered DuplicateAction by the UNIQUE constraint                    *)
C2_Witness ==
    /\ resp.res = "DuplicateAction"
    /\ resp.aid \in ActionIds
    /\ \E r \in Reqs : req[r].pc \in {"rank", "publish"} /\ req[r].aid = resp.aid

(* C3: increments of one user serialize with no lost update: the total a   *)
(* committed request read back is the sum of that user's rows up to its    *)
(* own, and the user's total is that value plus the points of every row    *)
(* committed after it; and a request that has passed its checks can commit *)
(* while an increment of a different user is in progress.                  *)
RowsUpTo(u, seq) == {h \in RecordsOf(u) : h.id <= seq}
RowsAfter(u, seq) == {h \in RecordsOf(u) : h.id > seq}
CanCommit(r) == ENABLED Commit(r)
OtherUserBusy(r) ==
    \E q \in Reqs : req[q].pc \in {"apply", "rank", "publish"} /\ req[q].user # req[r].user

C3_WitnessOther ==
    /\ req["r1"].pc = "apply" /\ req["r1"].user = 10
    /\ req["r2"].pc = "rank" /\ req["r2"].user = 11

(* C4: every GET /api/scoreboard result, from the cache or from a rebuild, *)
(* is ordered by score descending then user_id ascending, lists no user    *)
(* twice, and has at most 10 entries and at most as many as there are      *)
(* users.                                                                  *)
Ordered(e) ==
    \A i, j \in DOMAIN e :
        i < j => \/ e[i].score > e[j].score
                 \/ (e[i].score = e[j].score /\ e[i].user_id < e[j].user_id)

C4_TopNResult ==
    resp.kind = "scoreboard" =>
        /\ Ordered(resp.entries)
        /\ Cardinality({resp.entries[k].user_id : k \in DOMAIN resp.entries}) = Len(resp.entries)
        /\ Len(resp.entries) <= 10
        /\ Len(resp.entries) <= Cardinality(accounts)

(* a cached board of fewer than 10 users, two of them level on score *)
C4_Witness ==
    /\ resp.kind = "scoreboard" /\ resp.src = "cache"
    /\ Len(resp.entries) = 3
    /\ resp.entries[1].score > resp.entries[2].score
    /\ resp.entries[2].score = resp.entries[3].score

C4_WitnessFull ==
    /\ resp.kind = "scoreboard" /\ resp.src = "rebuild"
    /\ Len(resp.entries) = 10 /\ Cardinality(accounts) > 10
    /\ resp.entries[1].user_id = 11

(* C5: no more than RATE_LIMIT_PER_USER requests of a user pass the rate   *)
(* check inside one window; a request beyond that is answered RateLimited  *)
(* with a retry_after above 0, and at most RATE_LIMIT_WINDOW unless a ban  *)
(* is what refuses it, is not processed further and leaves the ledger and  *)
(* the request count as they were.                                         *)
C5_Step ==
    resp'.res = "RateLimited" =>
        /\ resp'.retry > 0
        /\ ban[resp'.user] = 0 =>
              /\ rate[resp'.user].count >= 10 /\ rate[resp'.user].ttl > 0
              /\ resp'.retry <= 60
        /\ rate'[resp'.user].count = rate[resp'.user].count
        /\ rate'[resp'.user].ttl = rate[resp'.user].ttl
        /\ UNCHANGED <<total, history, req>>

InBounds(p) == p >= 1 /\ p <= 1000

C6_InvalidAction ==
    /\ \A h \in history : InBounds(h.points)
    /\ \A r \in Reqs : req[r].pc \in {"apply", "rank", "publish"} => InBounds(req[r].pts)
    /\ resp.res \in {"OK", "PersistenceError"} => InBounds(resp.pts)
    /\ resp.res = "InvalidAction" => ~InBounds(resp.pts) /\ resp.aid \notin SeenActionIds
    /\ \A u \in Users : total[u] = SumPoints({h \in RecordsOf(u) : InBounds(h.points)})

C6_Witness ==
    /\ resp.res = "InvalidAction" /\ resp.pts = 5000
    /\ total[resp.user] = SeedScore(resp.user) + 10

C6_WitnessZero ==
    /\ resp.res = "InvalidAction" /\ resp.pts = 0
    /\ total[resp.user] = 10

(* C7: a committed increment that changes neither the membership nor the   *)
(* order of the top 10 (judged on the ledger before and after its commit,  *)
(* with no other commit before its ranking step) enqueues no leaderboard   *)
(* update at any subscriber and publishes exactly one personal update,     *)
(* which reaches the user's subscription.                                  *)
Quiet(x) == x.res = "OK" /\ ~x.overlap /\ x.was = x.now

C7_Step ==
    Quiet(resp') =>
        /\ resp'.nDelta = 0 /\ resp'.nPersonal = 1
        /\ \A s \in Subs : sub'[s].deltas = sub[s].deltas
        /\ \A s \in cfg.subs :
              sub[s].user = resp'.user =>
                 \/ sub'[s].personal =
                       Append(sub[s].personal,
                              [new_score |-> resp'.new_score, rank |-> resp'.rank,
                               points_gained |-> resp'.pts])
                 \/ Len(sub[s].personal) >= QueueBound /\ sub'[s].resync
        /\ \A s \in Subs : sub[s].user # resp'.user => sub'[s] = sub[s]

C7_WitnessOutside ==
    /\ Quiet(resp) /\ resp.rank0 > 10 /\ resp.rank > 10

(* C8: the changed_ranks of an increment are exactly the rank positions    *)
(* whose occupant differs between the top 10 before and after its commit;  *)
(* when it takes the user from outside the top 10 into it, displacing the  *)
(* 10th, a leaderboard update goes to every subscriber and its             *)
(* changed_ranks holds 10 and the entrant's new rank.                      *)
At(q, k) == IF k \in DOMAIN q THEN q[k] ELSE NoUser
Moved(x) == {k \in 1..10 : At(x.was, k) # At(x.now, k)}

C8_ChangedRanks ==
    resp.res = "OK" /\ ~resp.overlap =>
        /\ resp.changed = Moved(resp)
        /\ resp.nDelta = (IF Moved(resp) = {} THEN 0 ELSE 1)
        /\ resp.rank0 > 10 /\ resp.rank <= 10 /\ Len(resp.was) = 10 =>
              /\ resp.nDelta = 1
              /\ {10, resp.rank} \subseteq resp.changed
        /\ resp.nDelta = 1 =>
              \A s \in cfg.subs :
                  /\ sub[s].deltas # <<>>
                  /\ sub[s].deltas[Len(sub[s].deltas)].changed_ranks = resp.changed

(* user 11 enters at rank 1 and the former 10th drops out *)
C8_Witness ==
    /\ resp.res = "OK" /\ ~resp.overlap
    /\ resp.rank0 = 11 /\ resp.rank = 1 /\ resp.was[10] = 10
    /\ resp.changed = 1..10

C8_WitnessTenth ==
    /\ resp.res = "OK" /\ ~resp.overlap
    /\ resp.rank0 = 11 /\ resp.rank = 10 /\ resp.changed = {10}

(* C9: a caller answered PersistenceError who submits the same action_id   *)
(* again, whether or not the failed transaction had been applied: at every *)
(* point of the retry there is at most one row for the action_id and the   *)
(* user's total counts its points at most once.                            *)
AtMostOnce(u, a) == Cardinality(RecordsFor(a)) <= 1 /\ total[u] = PointsOnce(u)

C9_RetrySafe ==
    /\ resp.res = "PersistenceError" \/ resp.isRetry => AtMostOnce(resp.user, resp.aid)
    /\ \A r \in Reqs : req[r].isRetry => AtMostOnce(req[r].user, req[r].aid)

(* the failed transaction had been applied and the retry is told so *)
C9_Witness ==
    /\ resp.isRetry /\ resp.res = "DuplicateAction"
    /\ Cardinality(RecordsFor(resp.aid)) = 1

(* nothing had been applied and the retry is *)
C9_WitnessApplied ==
    /\ resp.isRetry /\ resp.res = "OK"
    /\ Cardinality(RecordsFor(resp.aid)) = 1

(* C10: a request rejected before the ledger commit (Unauthorized,         *)
(* RateLimited, DuplicateAction, InvalidAction) changes no state: none of  *)
(* its steps, up to and including the rejection, changes a score account,  *)
(* the score_history rows (and so the seen action_ids), the leaderboard    *)
(* cache or a subscriber queue.                                            *)
Rejections == {"Unauthorized", "RateLimited", "DuplicateAction", "InvalidAction"}

PreCommitStep ==
    \/ resp'.kind = "increment" /\ resp'.res \in Rejections
    \/ \E r \in Reqs : req'[r].pc \in {"guard", "apply"} /\ req'[r] # req[r]

C10_RejectFrame ==
    [][PreCommitStep => UNCHANGED <<accounts, total, history, top, sub>>]_vars

(* an InvalidAction rejection while the cache is filled and an update is queued *)
C10_Witness ==
    /\ resp.res = "InvalidAction"
    /\ top.ttl > 0
    /\ \E s \in Subs : sub[s].deltas # <<>>

Answered(r) == req[r].pc = "publish" /\ req'[r].pc = "idle"
DeltaOf(rec) == [seq |-> rec.seq, changed_ranks |-> rec.changed, leaderboard |-> rec.board]

C12_Step ==
    \A s \in Subs :
        /\ Len(sub'[s].deltas) <= QueueBound
        /\ Len(sub'[s].personal) <= QueueBound
        /\ \A r \in Reqs :
              Answered(r) /\ resp'.nDelta = 1 /\ s \in cfg.subs =>
                 LET q == sub[s].deltas
                 IN sub'[s].deltas =
                       (IF Len(q) < QueueBound THEN q ELSE SubSeq(q, 2, Len(q)))
                          \o <<DeltaOf(req[r])>>

C12_BoundedQueues == [][C12_Step]_vars

(* three updates published and none delivered: the first one has gone *)
C12_Witness ==
    /\ resp.nDelta = 1
    /\ \A s \in cfg.subs :
          /\ Len(sub[s].deltas) = QueueBound
          /\ sub[s].deltas[1].seq = NumSeeded + 2
          /\ sub[s].deltas[QueueBound].seq = NumSeeded + 3

(* C13: a personal update is never lost silently: publishing one for a     *)
(* user either appends it to the queue of that user's subscription or      *)
(* raises the resync signal there; a queued personal update leaves the     *)
(* queue only by being delivered from its head, or lost with the resync    *)
(* signal raised; and a raised resync signal stays raised.                 *)
OwnOf(rec) == [new_score |-> rec.new_score, rank |-> rec.rank, points_gained |-> rec.pts]

C13_Step ==
    \A s \in Subs :
        /\ \A r \in Reqs :
              Answered(r) /\ s \in cfg.subs /\ sub[s].user = req[r].user =>
                 \/ sub'[s].personal = sub[s].personal \o <<OwnOf(req[r])>>
                 \/ sub'[s].personal = sub[s].personal /\ sub'[s].resync
        /\ \/ sub'[s].personal = sub[s].personal
           \/ sub[s].personal # <<>> /\ sub'[s].personal = SubSeq(sub[s].personal, 2, Len(sub[s].personal))
           \/ \E r \in Reqs : Answered(r) /\ sub'[s].personal = sub[s].personal \o <<OwnOf(req[r])>>
           \/ sub'[s].personal = <<>> /\ sub'[s].resync
        /\ sub[s].resync => sub'[s].resync

C13_NoSilentDrop == [][C13_Step]_vars

(* the third personal update of user 11 meets a full queue *)
C13_Witness ==
    /\ resp.res = "OK" /\ resp.user = 11
    /\ sub["s1"].resync /\ Len(sub["s1"].personal) = QueueBound
    /\ total[11] = SeedScore(11) + 10 + 1000 + 10

(* C14: once its increment is committed a request is answered OK with the  *)
(* committed total, whatever follows: no step of a committed request ends  *)
(* in an error, also when the ranking recompute fails or a delivery fails, *)
(* and no step removes a score_history row or lowers a total.              *)
Committed(r) == req[r].pc \in {"rank", "publish"}

C14_Step ==
    /\ \A r \in Reqs :
          Committed(r) =>
             \/ /\ Committed(r)'
                /\ req'[r].user = req[r].user /\ req'[r].aid = req[r].aid
                /\ req'[r].new_score = req[r].new_score
             \/ /\ req'[r].pc = "idle"
                /\ resp'.res = "OK" /\ resp'.user = req[r].user /\ resp'.aid = req[r].aid
                /\ resp'.new_score = req[r].new_score
    /\ history \subseteq history'
    /\ \A u \in Users : total'[u] >= total[u]

C14_AnsweredOK == [][C14_Step]_vars

(* answered OK although the recompute failed: the top 10 changed and no    *)
(* update was pushed                                                       *)
C14_Witness ==
    /\ resp.res = "OK" /\ ~resp.overlap
    /\ resp.was # resp.now /\ resp.nDelta = 0
    /\ top = NoTop
    /\ \E h \in history : h.action_id = resp.aid /\ h.points = resp.pts

(* a request handler never stops part-way: each step of an accepted        *)
(* request is taken once it can be; nothing is assumed of the subscribers  *)
Handle(r) == Validate(r) \/ Commit(r) \/ Rank(r) \/ Publish(r)

HandlerRuns == \A r \in ScnLive.reqs : WF_vars(Handle(r))

SpecLive == InitLive /\ [][Next]_vars /\ HandlerRuns

(* C15: publishing never blocks the score-update path: with subscribers    *)
(* that may never take a message from their queues, every request that has *)
(* been admitted is answered (its slot is free again), and the step that   *)
(* answers one that has committed answers OK.                              *)
C15_Step ==
    \A r \in ScnLive.reqs :
        Committed(r) => Committed(r)' \/ (req'[r].pc = "idle" /\ resp'.res = "OK")

C15_Answered ==
    /\ \A r \in ScnLive.reqs : (req[r].pc # "idle") ~> (req[r].pc = "idle")
    /\ [][C15_Step]_vars

(* answered OK with both queues of the subscription full *)
C15_Witness ==
    /\ resp.res = "OK"
    /\ sub["s1"].resync
    /\ Len(sub["s1"].deltas) = QueueBound /\ Len(sub["s1"].personal) = QueueBound

(* C16: a second RateLimited outcome inside the window puts the user under *)
(* a ban; a request submitted by a user whose ban is active is answered    *)
(* RateLimited with a retry_after above 0, is not admitted and changes     *)
(* neither the ledger nor the counters, whatever the counters are, also    *)
(* after the window has run out and the request count is gone.             *)
Submitted == submitted' # submitted

C16_Step ==
    /\ \A u \in Users :
          resp'.res = "RateLimited" /\ resp'.user = u /\ rate'[u].strikes >= 2 => ban'[u] > 0
    /\ Submitted =>
          \A u \in Users :
              ban[u] > 0 =>
                 /\ \A r \in Reqs : req'[r] # req[r] => req'[r].user # u
                 /\ resp'.kind = "increment" /\ resp'.user = u =>
                       resp'.res = "RateLimited" /\ resp'.retry > 0
                 /\ rate'[u] = rate[u]
                 /\ total' = total /\ history' = history

C16_Banned == [][C16_Step]_vars

(* refused by the ban after the window has run out *)
C16_Witness ==
    /\ resp.res = "RateLimited" /\ resp.user = 11
    /\ ban[11] > 0 /\ rate[11] = NoRate
    /\ submitted = 13

(* C17: an action that is new and within the bounds, and whose points      *)
(* bring the user's gain of the current window above                       *)
(* SUSPICIOUS_VELOCITY_THRESHOLD or the total above MANUAL_REVIEW_THRESHOLD,*)
(* is flagged and goes on: it is put on the review queue, its              *)
(* score_history row is inserted, total_score grows by its points and the  *)
(* caller is answered OK (marked flagged); an action that is neither is    *)
(* not flagged; a step that answers Unauthorized, RateLimited,             *)
(* InvalidAction or DuplicateAction leaves ledger and review queue as      *)
(* they were.                                                              *)
WindowRows(u) ==
    IF rate[u].ttl > 0 THEN {h \in RecordsOf(u) : h.id >= rate[u].since} ELSE {}

Suspect(rec) ==
    \/ SumPoints(WindowRows(rec.user)) + rec.pts > SUSPICIOUS_VELOCITY_THRESHOLD
    \/ total[rec.user] + rec.pts > MANUAL_REVIEW_THRESHOLD

RejectResults == {"Unauthorized", "RateLimited", "InvalidAction", "DuplicateAction"}

C17_Step ==
    /\ \A r \in Reqs :
          /\ ( /\ req[r].pc = "guard" /\ req'[r] # req[r]
               /\ req[r].aid \notin SeenActionIds
               /\ req[r].pts \in 1..MAX_POINTS_PER_ACTION )
             => /\ req'[r].pc = "apply"
                /\ req'[r].flag = Suspect(req[r])
                /\ Suspect(req[r]) => req[r].aid \in review'
                /\ ~Suspect(req[r]) => review' = review
          /\ (req[r].pc = "apply" /\ req[r].flag /\ req'[r] # req[r])
             => \/ /\ req'[r].pc = "rank"
                   /\ total' = [total EXCEPT ![req[r].user] = @ + req[r].pts]
                   /\ \E h \in history' \ history :
                         /\ history' = history \cup {h}
                         /\ h.user_id = req[r].user
                         /\ h.action_id = req[r].aid
                         /\ h.points = req[r].pts
                \/ resp'.res \in {"PersistenceError", "DuplicateAction"}
          /\ (req[r].pc \in {"rank", "publish"} /\ req[r].flag /\ req'[r] # req[r])
             => \/ req'[r].pc = "publish" /\ req'[r].flag
                \/ /\ req'[r].pc = "idle"
                   /\ resp'.res = "OK"
                   /\ resp'.flagged
                   /\ resp'.aid \in review
                   /\ \E h \in RecordsFor(resp'.aid) :
                         h.user_id = resp'.user /\ h.points = resp'.pts
          /\ (req[r].pc = "publish" /\ ~req[r].flag /\ req'[r].pc = "idle")
             => resp'.res = "OK" /\ ~resp'.flagged
    /\ (resp'.res \in RejectResults /\ resp' # resp) => UNCHANGED <<total, history, review>>

C17_Flagged == [][C17_Step]_vars

(* the leader's second action took the total from the threshold to above   *)
(* it, the newcomer's action gained 1000 points at once: both are on the   *)
(* review queue, both are in the totals, and the newcomer is answered OK   *)
C17_Witness ==
    /\ resp.res = "OK" /\ resp.flagged
    /\ resp.user = 11 /\ resp.aid = 103
    /\ review = {102, 103}
    /\ total[1] = MANUAL_REVIEW_THRESHOLD + 10
    /\ total[11] = SeedScore(11) + 1000

C18_Step ==
    \A u \in Users :
        /\ total[u] \in Nat /\ total'[u] \in Nat
        /\ total'[u] >= total[u]
        /\ (total'[u] > total[u] /\ total'[u] > MANUAL_REVIEW_THRESHOLD)
           => \E r \in Reqs :
                 /\ req[r].pc = "apply" /\ req[r].user = u
                 /\ total'[u] = total[u] + req[r].pts
                 /\ req[r].flag /\ req[r].aid \in review

Higher(u) == {v \in accounts : total[v] > total[u]}
TiedAhead(u) == {v \in accounts : total[v] = total[u] /\ v < u}
Position(u) == 1 + Cardinality(Higher(u)) + Cardinality(TiedAhead(u))

C19_ExactRank ==
    /\ \A u \in accounts : GetRank(accounts, total, u) = Position(u)
    /\ {Position(u) : u \in accounts} = 1..Cardinality(accounts)
    /\ resp.res = "OK" =>
          /\ resp.new_score = total[resp.user]
          /\ resp.rank = Position(resp.user)

(* two users at the same total: the one with the larger id is ranked after *)
C19_Witness ==
    /\ resp.res = "OK" /\ resp.user = 12 /\ resp.rank = 2
    /\ total[10] = total[12] /\ total[11] < total[12]

(* an increment that leaves its user outside the top 10 *)
C19_WitnessOutside ==
    /\ resp.res = "OK" /\ resp.user = 10 /\ resp.rank = TOP_N + 1

(* C20: whenever no committed increment awaits its ranking step and none   *)
(* went without one since the cache was built, however the requests        *)
(* interleaved, a cached leaderboard lists exactly the first 10 accounts   *)
(* of the ordering by total_score descending, user_id ascending, in that   *)
(* order and with their totals; and a scoreboard read that finds no cache  *)
(* (lost or expired) rebuilds that same list from the ledger.              *)
Settled == unranked = 0 /\ \A r \in Reqs : req[r].pc # "rank"

IsTopOfLedger(entries) ==
    /\ DOMAIN entries = 1..Min(TOP_N, Cardinality(accounts))
    /\ \A k \in DOMAIN entries :
          /\ entries[k].user_id \in accounts
          /\ Position(entries[k].user_id) = k
          /\ entries[k].score = total[entries[k].user_id]

C20_CacheConsistent ==
    /\ (Settled /\ CacheFresh(top)) => IsTopOfLedger(top.entries)
    /\ (resp.kind = "scoreboard" /\ resp.src = "rebuild") =>
          IsTopOfLedger(resp.entries) /\ top.entries = resp.entries
    /\ (resp.kind = "scoreboard" /\ resp.src = "cache" /\ Settled) =>
          IsTopOfLedger(resp.entries)

(* two leaders overtook each other with both requests in flight; both      *)
(* ranking steps are done and the cache has them in the ledger's order     *)
C20_Witness ==
    /\ resp.res = "OK" /\ resp.overlap
    /\ Settled /\ CacheFresh(top)
    /\ total[8] = SeedScore(8) + 1000 /\ total[9] = SeedScore(9) + 1000
    /\ top.entries[1].user_id = 8 /\ top.entries[2].user_id = 9

(* the cache was lost while an increment was committed, and is rebuilt *)
C20_WitnessRebuild ==
    /\ resp.kind = "scoreboard" /\ resp.src = "rebuild"
    /\ total[11] = SeedScore(11) + 10
    /\ resp.entries[TOP_N].user_id = 11

(* ======================= problem_5: the resources API ================== *)
(* Number(text) of a text that is no number *)
NaN == 0 - 1
isNaN(x) == x = NaN

(* the texts a path parameter or a filter value takes here, and Number()   *)
(* and String() between them and the numbers                               *)
Numerals == <<"1", "2", "3", "4", "5">>
ToNumber(text) ==
    IF \E n \in DOMAIN Numerals : Numerals[n] = text
    THEN CHOOSE n \in DOMAIN Numerals : Numerals[n] = text
    ELSE NaN
StringOf(n) == IF n \in DOMAIN Numerals THEN Numerals[n] ELSE "NaN"

ResourceStatus == {"active", "inactive"}

ResourceTableDescriptor ==
    [tableName |-> "resources",
     columnTypes |-> [id |-> "number", name |-> "string", description |-> "string",
                      status |-> "string", createdAt |-> "date", updatedAt |-> "date",
                      rating |-> "number"]]

(* a field that a body or a row does not have *)
Absent == "undefined"

(* zod: name a non-empty string, description optional, status optional and *)
(* one of ResourceStatus; safeParse succeeds or not, and data holds the    *)
(* keys of the schema only                                                 *)
SchemaKeys == {"name", "description", "status"}
OptionalFieldsOk(body) == body.status \in ResourceStatus \cup {Absent}
CreateResourceSchema(body) ==
    /\ body.name \notin {Absent, ""}
    /\ OptionalFieldsOk(body)
UpdateResourceSchema(body) ==
    /\ body.name # ""
    /\ OptionalFieldsOk(body)
ParsedData(body) == [k \in SchemaKeys |-> body[k]]

(* ---------------- BaseRepository --------------------------------------- *)
(* what every object literal inherits from Object.prototype *)
ObjectPrototype == {"constructor", "toString", "valueOf", "hasOwnProperty"}

(* obj[key]: the object's own property, else the inherited one *)
GetProperty(obj, key) ==
    IF key \in DOMAIN obj THEN obj[key]
    ELSE IF key \in ObjectPrototype THEN "function"
    ELSE "undefined"

Truthy(v) == v \notin {"undefined", "null", ""}

(* the first table whose columnTypes[key] is truthy *)
resolveColumn(tables, key) ==
    IF \E i \in DOMAIN tables : Truthy(GetProperty(tables[i].columnTypes, key))
    THEN LET i == CHOOSE j \in DOMAIN tables :
                    /\ Truthy(GetProperty(tables[j].columnTypes, key))
                    /\ \A k \in 1..(j - 1) : ~Truthy(GetProperty(tables[k].columnTypes, key))
         IN [found |-> TRUE, table |-> tables[i].tableName,
             type |-> GetProperty(tables[i].columnTypes, key)]
    ELSE [found |-> FALSE, table |-> "", type |-> "undefined"]

(* the two date formats the code knows, on the date texts used here *)
DateTimes == {"2025-08-20 00:00:00"}
Dates == {"2025-08-20"}

(* a value is kept as [v |-> ...], so that numbers and texts can share a   *)
(* parameter array                                                         *)
coerceValue(value, type) ==
    CASE type = "number" -> [n |-> ToNumber(value)]
      [] type = "date" -> IF value \in DateTimes THEN [s |-> value]
                          ELSE IF value \in Dates THEN [s |-> "2025-08-20 00:00:00"]
                          ELSE [s |-> ""]
      [] OTHER -> [s |-> value]

coerceArray(values, type) == [i \in DOMAIN values |-> coerceValue(values[i], type)]

(* a filter is the sequence of its entries [key, isArray, values]; the     *)
(* clause is the sequence of its conditions, each a column reference and   *)
(* its '?' placeholders, joined by AND behind WHERE when there is one      *)
RECURSIVE WhereFrom(_, _, _, _)
WhereFrom(tables, entries, valid, acc) ==
    IF entries = <<>> THEN acc
    ELSE LET e == Head(entries)
             resolved == resolveColumn(tables, e.key)
             rest == Tail(entries)
         IN IF ~resolved.found THEN WhereFrom(tables, rest, valid, acc)
            ELSE IF valid.given /\ e.key \notin valid.names
            THEN WhereFrom(tables, rest, valid, acc)
            ELSE WhereFrom(tables, rest, valid,
                    [clause |-> Append(acc.clause,
                                   [table |-> resolved.table, key |-> e.key,
                                    in |-> e.isArray,
                                    marks |-> IF e.isArray THEN Len(e.values) ELSE 1]),
                     params |-> acc.params \o
                                   (IF e.isArray THEN coerceArray(e.values, resolved.type)
                                    ELSE <<coerceValue(e.values[1], resolved.type)>>)])

NoFilter == [given |-> FALSE, entries |-> <<>>]
AnyColumn == [given |-> FALSE, names |-> {}]

buildWhereClauseEmpty(tables, filter, validColumnNames) == [clause |-> <<>>, params |-> <<>>]

buildWhereClause(tables, filter, validColumnNames) ==
    IF ~filter.given THEN [clause |-> <<>>, params |-> <<>>]
    ELSE WhereFrom(tables, filter.entries, validColumnNames, [clause |-> <<>>, params |-> <<>>])

(* SET key = ? for every field of data that is there, then updatedAt;      *)
(* with no field it throws 'No valid fields to update.'                    *)
FieldsOf(data) == {k \in DOMAIN data : data[k] \notin {Absent, "null"}}

buildUpdateClause(columnTypes, data) ==
    [throws |-> FieldsOf(data) = {},
     set |-> FieldsOf(data),
     values |-> data,
     touch |-> "updatedAt" \in DOMAIN columnTypes]

(* INSERT INTO resources (the fields of data) VALUES (?, ...); with no     *)
(* field it throws 'No valid fields to insert.'                           *)
buildInsertQuery(columnTypes, data) ==
    [throws |-> FieldsOf(data) = {}, columns |-> FieldsOf(data), values |-> data]

(* ---------------- the resources table (sqlite) ------------------------- *)
MaxCalls == 3

Calls == {"c1", "c2"}
Params == {"2", "3", "abc"}
Bodies ==
    {[name |-> Absent, description |-> Absent, status |-> Absent],
     [name |-> "n", description |-> Absent, status |-> Absent],
     [name |-> Absent, description |-> "d", status |-> "inactive"],
     [name |-> "n", description |-> Absent, status |-> "bogus"],
     [name |-> "", description |-> Absent, status |-> Absent]}

(* late and hit record what the request met: its id already deleted when  *)
(* it arrived, a row under its id when its UPDATE ran                      *)
NoCall == [pc |-> "idle", op |-> "", id |-> 0, data |-> <<>>, late |-> FALSE, hit |-> FALSE]
NoReply == [op |-> "", status |-> 0, id |-> 0, late |-> FALSE, n |-> 0]

Row(name, description, status, at) ==
    [name |-> name, description |-> description, status |-> status,
     createdAt |-> at, updatedAt |-> at]

(* name as given; description NULL and status 'active' unless given;       *)
(* createdAt and updatedAt DEFAULT CURRENT_TIMESTAMP                       *)
NewRow(data, at) ==
    Row(data.name,
        IF data.description = Absent THEN "NULL" ELSE data.description,
        IF data.status = Absent THEN "active" ELSE data.status,
        at)

RowidReused(rows, seq) ==
    IF DOMAIN rows = {} THEN 1
    ELSE 1 + (CHOOSE i \in DOMAIN rows : \A j \in DOMAIN rows : j <= i)

(* id INTEGER PRIMARY KEY AUTOINCREMENT: one more than the largest rowid   *)
(* the table ever had (sqlite_sequence)                                    *)
NextRowid(rows, seq) == seq + 1

RunInsert(rows, id, q, at) ==
    [i \in DOMAIN rows \cup {id} |-> IF i = id THEN NewRow(q.values, at) ELSE rows[i]]

(* the value of a column of a row, as the parameters have them *)
ColumnValue(id, row, key) ==
    IF key = "id" THEN [n |-> id]
    ELSE IF key \in DOMAIN row /\ key \notin {"createdAt", "updatedAt"} THEN [s |-> row[key]]
    ELSE [s |-> "NULL"]

(* WHERE c1 = ? AND c2 = ? ...; no WHERE at all selects every row *)
Selected(rows, w) ==
    {i \in DOMAIN rows :
        \A k \in DOMAIN w.clause : ColumnValue(i, rows[i], w.clause[k].key) = w.params[k]}

(* UPDATE resources SET ..., updatedAt = CURRENT_TIMESTAMP WHERE ... *)
RunUpdate(rows, q, w, at) ==
    [i \in DOMAIN rows |->
        IF i \notin Selected(rows, w) THEN rows[i]
        ELSE [c \in DOMAIN rows[i] |->
                 IF c \in q.set THEN q.values[c]
                 ELSE IF c = "updatedAt" /\ q.touch THEN at
                 ELSE rows[i][c]]]

(* DELETE FROM resources WHERE id = ? *)
RunDelete(rows, id) == [i \in DOMAIN rows \ {id} |-> rows[i]]

(* SELECT * FROM resources WHERE id = ?: the row, or undefined *)
Found(rows, id) == id \in DOMAIN rows

(* ---------------- controller, service and repository ------------------- *)
(* a promise rejected inside an async handler is caught by nothing in the  *)
(* code: the router answers 500 or the request gets no response (0)        *)
UnhandledRejection == {500, 0}

InFlight == Cardinality({h \in Calls : call[h].pc # "idle"})

Accepting(h) == call[h].pc = "idle" /\ reply.n + InFlight < MaxCalls

Respond(h, op, status, id) ==
    /\ reply' = [op |-> op, status |-> status, id |-> id, late |-> call[h].late,
                 n |-> reply.n + 1]
    /\ call' = [call EXCEPT ![h] = NoCall]

Rejected(h, op, id) == \E status \in UnhandledRejection : Respond(h, op, status, id)

Await(h, pc, op, id, data) ==
    /\ call' = [call EXCEPT ![h] = [pc |-> pc, op |-> op, id |-> id, data |-> data,
                                    late |-> id \in gone, hit |-> FALSE]]
    /\ reply' = [NoReply EXCEPT !.n = reply.n]

IdFilter(id) ==
    [given |-> TRUE, entries |-> <<[key |-> "id", isArray |-> FALSE, values |-> <<StringOf(id)>>]>>]

(* GET /resources/:id up to the SELECT it issues *)
getResource(h, param) ==
    /\ Accepting(h)
    /\ LET id == ToNumber(param)
       IN IF isNaN(id) THEN Respond(h, "GET", 400, id)
          ELSE Await(h, "read", "GET", id, <<>>)
    /\ UNCHANGED <<scoreVars, db, resources, gone, di, calc, built>>

(* POST /resources up to the INSERT it issues *)
createResource(h, body) ==
    /\ Accepting(h)
    /\ IF ~CreateResourceSchema(body) THEN Respond(h, "POST", 400, 0)
       ELSE IF buildInsertQuery(ResourceTableDescriptor.columnTypes, ParsedData(body)).throws
       THEN Rejected(h, "POST", 0)
       ELSE Await(h, "run", "POST", 0, ParsedData(body))
    /\ UNCHANGED <<scoreVars, db, resources, gone, di, calc, built>>

(* PATCH /resources/:id up to the UPDATE it issues *)
updateResource(h, param, body) ==
    /\ Accepting(h)
    /\ LET id == ToNumber(param)
       IN IF ~UpdateResourceSchema(body) THEN Respond(h, "PATCH", 400, id)
          ELSE IF isNaN(id) THEN Respond(h, "PATCH", 400, id)
          ELSE IF buildUpdateClause(ResourceTableDescriptor.columnTypes, ParsedData(body)).throws
          THEN Rejected(h, "PATCH", id)
          ELSE Await(h, "run", "PATCH", id, ParsedData(body))
    /\ UNCHANGED <<scoreVars, db, resources, gone, di, calc, built>>

(* DELETE /resources/:id up to the DELETE it issues *)
deleteResource(h, param) ==
    /\ Accepting(h)
    /\ LET id == ToNumber(param)
       IN IF isNaN(id) THEN Respond(h, "DELETE", 400, id)
          ELSE Await(h, "run", "DELETE", id, <<>>)
    /\ UNCHANGED <<scoreVars, db, resources, gone, di, calc, built>>

(* a statement of a handler is executed by the open database; without the  *)
(* table it fails with 'no such table' and the promise is rejected         *)
Executes(h, pc, op) == db.open /\ call[h].pc = pc /\ call[h].op = op

(* the INSERT of create(), whose callback issues findOne(this.lastID) *)
ExecInsert(h) ==
    /\ Executes(h, "run", "POST")
    /\ IF ~db.table
       THEN Rejected(h, "POST", 0) /\ UNCHANGED <<db, resources>>
       ELSE LET id == NextRowid(resources, db.seq)
                q == buildInsertQuery(ResourceTableDescriptor.columnTypes, call[h].data)
            IN /\ resources' = RunInsert(resources, id, q, db.now + 1)
               /\ db' = [db EXCEPT !.seq = id, !.now = db.now + 1]
               /\ call' = [call EXCEPT ![h].pc = "read", ![h].id = id]
               /\ reply' = [NoReply EXCEPT !.n = reply.n]
    /\ UNCHANGED <<scoreVars, gone, di, calc, built>>

(* the UPDATE of update(), whose callback issues findOne(id) *)
ExecUpdate(h) ==
    /\ Executes(h, "run", "PATCH")
    /\ IF ~db.table
       THEN Rejected(h, "PATCH", call[h].id) /\ UNCHANGED <<db, resources>>
       ELSE LET q == buildUpdateClause(ResourceTableDescriptor.columnTypes, call[h].data)
                w == buildWhereClause(<<ResourceTableDescriptor>>, IdFilter(call[h].id), AnyColumn)
            IN /\ resources' = RunUpdate(resources, q, w, db.now + 1)
               /\ db' = [db EXCEPT !.now = db.now + 1]
               /\ call' = [call EXCEPT ![h].pc = "read",
                                        ![h].hit = Found(resources, call[h].id)]
               /\ reply' = [NoReply EXCEPT !.n = reply.n]
    /\ UNCHANGED <<scoreVars, gone, di, calc, built>>

(* the DELETE of delete(), resolved with this.changes > 0, and the answer  *)
(* of deleteResource                                                       *)
ExecDelete(h) ==
    /\ Executes(h, "run", "DELETE")
    /\ IF ~db.table
       THEN Rejected(h, "DELETE", call[h].id) /\ UNCHANGED <<resources, gone>>
       ELSE LET id == call[h].id
            IN /\ resources' = RunDelete(resources, id)
               /\ gone' = IF Found(resources, id) THEN gone \cup {id} ELSE gone
               /\ Respond(h, "DELETE", IF Found(resources, id) THEN 200 ELSE 404, id)
    /\ UNCHANGED <<scoreVars, db, di, calc, built>>

(* the SELECT of findOne() and the answer the controller makes of it:      *)
(* getResource and updateResource 404 without a row, createResource 500    *)
ExecFindOne(h) ==
    /\ \E op \in {"GET", "POST", "PATCH"} : Executes(h, "read", op)
    /\ LET id == call[h].id
           op == call[h].op
       IN IF ~db.table THEN Rejected(h, op, id)
          ELSE IF Found(resources, id)
          THEN Respond(h, op, IF op = "POST" THEN 201 ELSE 200, id)
          ELSE Respond(h, op, IF op = "POST" THEN 500 ELSE 404, id)
    /\ UNCHANGED <<scoreVars, db, resources, gone, di, calc, built>>

(* the server with its database open and two resources stored *)
InitApi ==
    /\ ScoreOff
    /\ db = [open |-> TRUE, creating |-> FALSE, table |-> TRUE, seq |-> 2, now |-> 1]
    /\ resources = [i \in {1, 2} |-> Row("r", "NULL", "active", 1)]
    /\ call = [h \in Calls |-> NoCall]
    /\ reply = NoReply
    /\ gone = {}
    /\ di = <<>>
    /\ calc = <<>>
    /\ built = <<>>

NextApi ==
    \/ \E h \in Calls, param \in Params : getResource(h, param)
    \/ \E h \in Calls, body \in Bodies : createResource(h, body)
    \/ \E h \in Calls, param \in Params, body \in Bodies : updateResource(h, param, body)
    \/ \E h \in Calls, param \in Params : deleteResource(h, param)
    \/ \E h \in Calls : ExecInsert(h)
    \/ \E h \in Calls : ExecUpdate(h)
    \/ \E h \in Calls : ExecDelete(h)
    \/ \E h \in Calls : ExecFindOne(h)

SpecApi == InitApi /\ [][NextApi]_vars

(* C21: every PATCH handled by updateResource ends with 200, 400 or 404 *)
C21_Statuses == reply.op = "PATCH" => reply.status \in {200, 400, 404}

(* a handler ends in this step with an answer to its request *)
Answers(op) == reply'.n = reply.n + 1 /\ reply'.op = op

(* C22: deleteResource answers 200 exactly when a row with the id existed  *)
(* and this DELETE removed it, 404 when no row has the id; it removes no   *)
(* row with another id; a GET or DELETE of the id that arrives after the   *)
(* 200 is answered 404                                                     *)
C22_Step ==
    /\ Answers("DELETE") /\ reply'.status # 400 =>
          /\ reply'.status \in {200, 404}
          /\ reply'.status = 200 <=>
                reply'.id \in DOMAIN resources /\ reply'.id \notin DOMAIN resources'
          /\ reply'.status = 404 <=> reply'.id \notin DOMAIN resources
          /\ \A i \in DOMAIN resources \ {reply'.id} :
                i \in DOMAIN resources' /\ resources'[i] = resources[i]
    /\ (Answers("GET") \/ Answers("DELETE")) /\ reply'.late => reply'.status = 404
C22_Delete == [][C22_Step]_vars

(* a GET or DELETE that arrived after the 200 of a DELETE of its id, with  *)
(* a resource created in between                                           *)
C22_Witness ==
    /\ reply.op \in {"GET", "DELETE"} /\ reply.late /\ reply.status = 404
    /\ reply.id \in gone
    /\ db.seq > 2

(* C23: createResource answers 400 and inserts nothing for a body that     *)
(* fails CreateResourceSchema, and answers 201 for every valid body, its   *)
(* INSERT adding exactly one row under an unused id and leaving the other  *)
(* rows as they are                                                        *)
C23_Step ==
    /\ Answers("POST") => reply'.status \in {400, 201}
    /\ Answers("POST") /\ reply'.status = 400 => resources' = resources
    /\ \A h \in Calls :
          call[h].op = "POST" /\ call[h].pc = "run" /\ call'[h].pc = "read" =>
             /\ DOMAIN resources' = DOMAIN resources \cup {call'[h].id}
             /\ call'[h].id \notin DOMAIN resources \cup gone
             /\ \A i \in DOMAIN resources : resources'[i] = resources[i]
C23_Create == [][C23_Step]_vars

(* the UPDATE of handler h runs in this step *)
Updates(h) == call[h].op = "PATCH" /\ call[h].pc = "run" /\ call'[h].pc = "read"

(* handler h ends in this step *)
Ends(h, op) == call[h].op = op /\ call[h].pc # "idle" /\ call'[h].pc = "idle"

(* what the UPDATE of update(id, data) does: its WHERE clause is not       *)
(* empty, no row comes or goes, every row with another id keeps all its    *)
(* values, and without a row under the id the table stays as it is         *)
C27_FrameOfUpdate ==
    \A h \in Calls : Updates(h) =>
       /\ buildWhereClause(<<ResourceTableDescriptor>>, IdFilter(call[h].id), AnyColumn).clause
             # <<>>
       /\ DOMAIN resources' = DOMAIN resources
       /\ \A i \in DOMAIN resources \ {call[h].id} : resources'[i] = resources[i]
       /\ ~Found(resources, call[h].id) => resources' = resources

(* C27 as stated: the frame of the UPDATE, and the result undefined (the   *)
(* 404 of updateResource) whenever no row had the id                       *)
C27_OriginalStep ==
    /\ C27_FrameOfUpdate
    /\ \A h \in Calls : Ends(h, "PATCH") /\ ~call[h].hit => reply'.status = 404
    /\ Answers("PATCH") /\ reply'.status # 400 /\ ~Found(resources, reply'.id) =>
          reply'.status = 404
C27_Step ==
    /\ C27_FrameOfUpdate
    /\ \A h \in Calls : Ends(h, "PATCH") =>
          /\ resources' = resources
          /\ reply'.status = IF Found(resources, call[h].id) THEN 200 ELSE 404
    /\ Answers("PATCH") /\ reply'.status \in UnhandledRejection => resources' = resources
initializeTables ==
    /\ ~db.open
    /\ db' = [db EXCEPT !.open = TRUE, !.creating = TRUE]
    /\ UNCHANGED <<scoreVars, resources, call, reply, gone, di, calc, built>>

(* the CREATE TABLE is executed; nothing in the code waits for it *)
ExecCreateTable ==
    /\ db.open /\ db.creating
    /\ db' = [db EXCEPT !.creating = FALSE, !.table = TRUE]
    /\ UNCHANGED <<scoreVars, resources, call, reply, gone, di, calc, built>>

(* first start: database.sqlite is new and has no table *)
InitBoot ==
    /\ ScoreOff
    /\ db = [open |-> FALSE, creating |-> FALSE, table |-> FALSE, seq |-> 0, now |-> 0]
    /\ resources = <<>>
    /\ call = [h \in Calls |-> NoCall]
    /\ reply = NoReply
    /\ gone = {}
    /\ di = <<>>
    /\ calc = <<>>
    /\ built = <<>>

NextBoot ==
    \/ initializeTables
    \/ ExecCreateTable
    \/ NextApi

SpecBoot == InitBoot /\ [][NextBoot]_vars

(* a statement of a request is executed in this step *)
Queries(h) == call[h].pc \in {"run", "read"} /\ call'[h] # call[h]

(* C29: no statement of ResourceRepository on the resources table is       *)
(* executed before the CREATE TABLE of initializeTables has completed      *)
C29_Step == \A h \in Calls : Queries(h) => db.table
C29_TableFirst == [][C29_Step]_vars

(* ---------------- buildWhereClause on bounded filters ------------------ *)
MaxEntries == 2

FilterKeys == {"id", "status", "createdAt", "color", "constructor"}
FilterValues == {"1", "active", "2025-08-20"}
FilterArrays == {<<>>, <<"1", "2">>, <<"active">>}

FilterEntries ==
    {[key |-> k, isArray |-> FALSE, values |-> <<v>>] : k \in FilterKeys, v \in FilterValues}
    \cup {[key |-> k, isArray |-> TRUE, values |-> a] : k \in FilterKeys, a \in FilterArrays}

(* the filter maps of up to MaxEntries keys, in the order of their keys *)
RECURSIVE FiltersOf(_)
FiltersOf(n) ==
    IF n = 0 THEN {<<>>}
    ELSE LET shorter == FiltersOf(n - 1)
         IN shorter \cup
            {Append(f, e) : f \in {g \in shorter : Len(g) = n - 1},
                            e \in FilterEntries}

DistinctKeys(f) == \A i, j \in DOMAIN f : i # j => f[i].key # f[j].key

Filters ==
    {NoFilter} \cup {[given |-> TRUE, entries |-> f] : f \in {g \in FiltersOf(MaxEntries) : DistinctKeys(g)}}

InitWhere ==
    /\ ScoreOff
    /\ db = [open |-> FALSE, creating |-> FALSE, table |-> FALSE, seq |-> 0, now |-> 0]
    /\ resources = <<>>
    /\ call = <<>>
    /\ reply = <<>>
    /\ gone = {}
    /\ di = <<>>
    /\ calc = <<>>
    /\ \E f \in Filters :
          built = [pc |-> "input", filter |-> f, out |-> [clause |-> <<>>, params |-> <<>>]]

(* findMany: buildWhereClause([ResourceTableDescriptor], filter.other) *)
BuildWhere ==
    /\ built.pc = "input"
    /\ built' = [built EXCEPT !.pc = "done",
                              !.out = buildWhereClause(<<ResourceTableDescriptor>>,
                                                       built.filter, AnyColumn)]
    /\ UNCHANGED <<scoreVars, db, resources, call, reply, gone, di, calc>>

NextWhere == BuildWhere

SpecWhere == InitWhere /\ [][NextWhere]_vars

RECURSIVE Placeholders(_)
Placeholders(clause) ==
    IF clause = <<>> THEN 0 ELSE Head(clause).marks + Placeholders(Tail(clause))

(* the same filter map with every value replaced by another text *)
Revalued(filter) ==
    [filter EXCEPT !.entries =
        [i \in DOMAIN filter.entries |->
            [filter.entries[i] EXCEPT !.values =
                [j \in DOMAIN filter.entries[i].values |-> "other"]]]]

DescriptorKeys(tables) == UNION {DOMAIN tables[i].columnTypes : i \in DOMAIN tables}

(* C28: the clause has as many '?' as there are params, names only keys of *)
(* the table descriptors, does not depend on the filter values, and is     *)
(* empty exactly when no filter key is a key of a descriptor               *)
C28_Where ==
    built.pc = "done" =>
       LET out == built.out
           tables == <<ResourceTableDescriptor>>
       IN /\ Placeholders(out.clause) = Len(out.params)
          /\ \A i \in DOMAIN out.clause : out.clause[i].key \in DescriptorKeys(tables)
          /\ out.clause = buildWhereClause(tables, Revalued(built.filter), AnyColumn).clause
          /\ out.clause = <<>> <=>
                \A i \in DOMAIN built.filter.entries :
                   built.filter.entries[i].key \notin DescriptorKeys(tables)

(* ======================= problem_5: DIContainer ======================== *)
(* values of the language, as far as their truthiness goes *)
Object(name) == [type |-> "object", v |-> name]
Undefined == [type |-> "undefined", v |-> ""]
Falsy(x) ==
    \/ x.type \in {"undefined", "null"}
    \/ x.type = "number" /\ x.v \in {"0", "NaN"}
    \/ x.type = "string" /\ x.v = ""
    \/ x.type = "boolean" /\ x.v = "false"

DIKeys == {"ResourceController", "ResourceService", "Database"}
DIInstances ==
    {Object("resourceController"), Object("database"), [type |-> "number", v |-> "0"]}

NoReturn == [op |-> "", key |-> "", threw |-> FALSE, value |-> Undefined, inst |-> 0]

(* Map.prototype.get: the value set under the key, else undefined *)
MapGet(map, key) == IF key \in DOMAIN map THEN map[key] ELSE Undefined

(* Map.prototype.set *)
MapSet(map, key, value) == [k \in DOMAIN map \cup {key} |-> IF k = key THEN value ELSE map[k]]

(* made counts the DIContainer objects constructed; dependencies is the    *)
(* Map of the one instance                                                 *)
InitDI ==
    /\ ScoreOff
    /\ db = [open |-> FALSE, creating |-> FALSE, table |-> FALSE, seq |-> 0, now |-> 0]
    /\ resources = <<>>
    /\ call = <<>>
    /\ reply = <<>>
    /\ gone = {}
    /\ calc = <<>>
    /\ built = <<>>
    /\ di = [made |-> 0, dependencies |-> <<>>, ret |-> NoReturn]

getInstance ==
    /\ LET made == IF di.made = 0 THEN 1 ELSE di.made
       IN di' = [di EXCEPT !.made = made,
                           !.ret = [NoReturn EXCEPT !.op = "getInstance", !.inst = made]]
    /\ UNCHANGED <<scoreVars, db, resources, call, reply, gone, calc, built>>

register(key, instance) ==
    /\ di.made > 0
    /\ di' = [di EXCEPT !.dependencies = MapSet(di.dependencies, key, instance),
                        !.ret = [NoReturn EXCEPT !.op = "register", !.key = key]]
    /\ UNCHANGED <<scoreVars, db, resources, call, reply, gone, calc, built>>

resolve(key) ==
    /\ di.made > 0
    /\ LET dependency == MapGet(di.dependencies, key)
       IN di' = [di EXCEPT !.ret = [NoReturn EXCEPT !.op = "resolve", !.key = key,
                                                    !.threw = Falsy(dependency),
                                                    !.value = IF Falsy(dependency)
                                                              THEN Undefined
                                                              ELSE dependency]]
    /\ UNCHANGED <<scoreVars, db, resources, call, reply, gone, calc, built>>

clear ==
    /\ di.made > 0
    /\ di' = [di EXCEPT !.dependencies = <<>>, !.ret = [NoReturn EXCEPT !.op = "clear"]]
    /\ UNCHANGED <<scoreVars, db, resources, call, reply, gone, calc, built>>

NextDI ==
    \/ getInstance
    \/ \E key \in DIKeys, instance \in DIInstances : register(key, instance)
    \/ \E key \in DIKeys : resolve(key)
    \/ clear

SpecDI == InitDI /\ [][NextDI]_vars

(* C24: getInstance always returns the one instance; resolve(key) returns  *)
(* the instance registered last under key since the last clear, whatever   *)
(* its value, and throws exactly when none is registered under key         *)
C24_Container ==
    /\ di.made <= 1
    /\ di.ret.op = "getInstance" => di.ret.inst = 1
    /\ di.ret.op = "resolve" =>
          /\ di.ret.threw <=> di.ret.key \notin DOMAIN di.dependencies
          /\ ~di.ret.threw => di.ret.value = di.dependencies[di.ret.key]

(* ======================= problem_4: sum_to_n =========================== *)
MaxN == 6

(* for (let i = 1; i <= n; i++) *)
LoopConditionStrict(i, n) == i < n
LoopCondition(i, n) == i <= n

(* calc holds n and one run of each function on it: a with its loop        *)
(* variable and sum, b with its result, c with the argument of the         *)
(* innermost call (k) and the value returned to the frame above it (acc)   *)
InitSum ==
    /\ ScoreOff
    /\ db = [open |-> FALSE, creating |-> FALSE, table |-> FALSE, seq |-> 0, now |-> 0]
    /\ resources = <<>>
    /\ call = <<>>
    /\ reply = <<>>
    /\ gone = {}
    /\ di = <<>>
    /\ built = <<>>
    /\ \E n \in 0..MaxN :
          calc = [n |-> n,
                  a |-> [pc |-> "loop", i |-> 1, sum |-> 0],
                  b |-> [pc |-> "call", result |-> 0],
                  c |-> [pc |-> "call", k |-> n, acc |-> 0]]

(* one test of the loop condition of sum_to_n_a, with the body and i++ or  *)
(* the return                                                              *)
sum_to_n_a ==
    /\ calc.a.pc = "loop"
    /\ calc' = IF LoopCondition(calc.a.i, calc.n)
               THEN [calc EXCEPT !.a.sum = calc.a.sum + calc.a.i, !.a.i = calc.a.i + 1]
               ELSE [calc EXCEPT !.a.pc = "done"]
    /\ UNCHANGED <<scoreVars, db, resources, call, reply, gone, di, built>>

(* n(n + 1) is even, so the division is exact *)
sum_to_n_b ==
    /\ calc.b.pc = "call"
    /\ calc' = [calc EXCEPT !.b.pc = "done",
                            !.b.result = (calc.n * (calc.n + 1)) \div 2]
    /\ UNCHANGED <<scoreVars, db, resources, call, reply, gone, di, built>>

(* one call of sum_to_n_c: the base case returns 0, any other argument     *)
(* calls with k - 1; one return adds the frame's n to what came back       *)
sum_to_n_c ==
    /\ calc.c.pc \in {"call", "return"}
    /\ calc' = IF calc.c.pc = "call"
               THEN IF calc.c.k = 0
                    THEN [calc EXCEPT !.c.pc = "return", !.c.acc = 0]
                    ELSE [calc EXCEPT !.c.k = calc.c.k - 1]
               ELSE IF calc.c.k = calc.n
                    THEN [calc EXCEPT !.c.pc = "done"]
                    ELSE [calc EXCEPT !.c.k = calc.c.k + 1,
                                      !.c.acc = (calc.c.k + 1) + calc.c.acc]
    /\ UNCHANGED <<scoreVars, db, resources, call, reply, gone, di, built>>

NextSum ==
    \/ sum_to_n_a
    \/ sum_to_n_b
    \/ sum_to_n_c

(* a call that has started runs on: nothing else runs in between *)
SpecSum == InitSum /\ [][NextSum]_vars /\ WF_vars(NextSum)

RECURSIVE SumUpTo(_)
SumUpTo(n) == IF n = 0 THEN 0 ELSE SumUpTo(n - 1) + n

Returned == calc.a.pc = "done" /\ calc.b.pc = "done" /\ calc.c.pc = "done"

(* C25: sum_to_n_a, sum_to_n_b and sum_to_n_c each return, and each        *)
(* returns 1 + 2 + ... + n, for every n from 0 to MaxN                     *)
C25_SameSum ==
    /\ [](/\ calc.a.pc = "done" => calc.a.sum = SumUpTo(calc.n)
          /\ calc.b.pc = "done" => calc.b.result = SumUpTo(calc.n)
          /\ calc.c.pc = "done" => calc.c.acc = SumUpTo(calc.n))
    /\ <>Returned

C25_Witness ==
    /\ Returned /\ calc.n = 5
    /\ calc.a.sum = 15 /\ calc.b.result = 15 /\ calc.c.acc = 15

(* ======================= scoreboard: retry after a failed apply ======== *)
MaxReqRetry == 3

(* a newcomer's actions, each submitted again when it was answered         *)
(* PersistenceError                                                        *)
ScnRetry ==
    [inputs |-> {<<11, 101, 10>>, <<11, 102, 1000>>},
     reqs |-> {"r1"}, subs |-> {"s1"}, maxReq |-> MaxReqRetry,
     ticks |-> {LEADERBOARD_TTL}]

InitRetry == InitWith(ScnRetry, TRUE)

(* the storage fails on first attempts only: it works when the retry comes *)
FailFirstApply(r, persisted) == ~req[r].isRetry /\ FailApply(r, persisted)

NextRetry ==
    \/ \E r \in cfg.reqs, i \in cfg.inputs : Submit(r, i[1], i[2], i[3])
    \/ \E r \in Reqs : Validate(r)
    \/ \E r \in Reqs : Commit(r)
    \/ \E r \in Reqs, persisted \in BOOLEAN : FailFirstApply(r, persisted)
    \/ \E r \in Reqs : Rank(r)
    \/ \E r \in Reqs : Publish(r)
    \/ \E s \in Subs : DeliverDelta(s)
    \/ \E s \in Subs : DeliverPersonal(s)
    \/ GetTopN
    \/ \E d \in 1..RATE_LIMIT_WINDOW : Tick(d)

RetryRuns == \A r \in ScnRetry.reqs : WF_vars(Handle(r))

SpecRetry == InitRetry /\ [][NextRetry]_vars /\ RetryRuns

(* the retry of an action of which the failed attempt left nothing *)
NothingPersisted(a) == \A h \in RecordsFor(a) : h.points = 0
FreshRetry(r) == req[r].pc = "guard" /\ req[r].isRetry /\ NothingPersisted(req[r].aid)

(* the retry is answered OK with its points applied once *)
RetryApplied ==
    /\ resp.kind = "increment" /\ resp.isRetry /\ resp.res = "OK"
    /\ \E h \in history : /\ h.action_id = resp.aid /\ h.user_id = resp.user
                          /\ h.points = resp.pts
                          /\ RecordsFor(resp.aid) = {h}
    /\ total[resp.user] = PointsOnce(resp.user)

(* C26: after an ApplyIncrement that failed with PersistenceError and      *)
(* persisted nothing, the retry with the same action_id is not held back   *)
(* by the failed attempt: with the storage working it is processed as a    *)
(* fresh submission and its points are eventually applied, once            *)
C26_RetryApplied == \A r \in ScnRetry.reqs : FreshRetry(r) ~> RetryApplied

C26_Witness ==
    /\ RetryApplied
    /\ resp.aid = 101 /\ resp.new_score = 105 /\ total[11] = 105
====
